---- MODULE Spec2Model ----
(***************************************************************************)
(* A model of md_to_html.py: the Markdown to HTML converter built from     *)
(* sequential regular-expression substitutions.                            *)
(*                                                                         *)
(* A text is a sequence of one-character strings.  Every re.sub call of    *)
(* the source is modelled by re_sub applied to a pattern record; the       *)
(* matcher of each pattern follows Python's semantics: the leftmost match  *)
(* wins, a greedy quantifier takes the longest run that still lets the     *)
(* rest of the pattern match (backtracking), '.' and [^\n] stop at a       *)
(* newline, '^' (no MULTILINE flag) matches at the start of the text only, *)
(* and the scan resumes right after a match.                               *)
(***************************************************************************)
EXTENDS Integers, Sequences, FiniteSets, TLC

VARIABLES corpus, called, result

vars == <<corpus, called, result>>

(***************************************************************************)
(* Characters and literals                                                 *)
(***************************************************************************)
NL == "\n"

\* Python's \s on the characters the model uses (str pattern: [ \t\n\r\f\v])
IsSpace(c) == c \in {" ", "\t", "\n", "\r", "\f"}

\* Python's \d (ASCII digits)
IsDigit(c) == c \in {"0", "1", "2", "3", "4", "5", "6", "7", "8", "9"}

\* The class [ \t] of the header pattern
IsBlank(c) == c \in {" ", "\t"}

\* f'{i}' for a one-digit i
Str(i) == <<"1", "2", "3", "4", "5", "6", "7", "8", "9">>[i]

Tag(name) == <<"<">> \o name \o <<">">>

CloseTag(name) == <<"<", "/">> \o name \o <<">">>

UL == <<"u", "l">>

OL == <<"o", "l">>

LI == <<"l", "i">>

P == <<"p">>

EM == <<"e", "m">>

STRONG == <<"s", "t", "r", "o", "n", "g">>

ARTICLE == <<"a", "r", "t", "i", "c", "l", "e">>

H(i) == <<"h", Str(i)>>

\* "#" * i
RECURSIVE Hashes(_)
Hashes(i) == IF i = 0 THEN <<>> ELSE <<"#">> \o Hashes(i - 1)

(***************************************************************************)
(* Helpers of the matchers                                                 *)
(***************************************************************************)
Max(S) == CHOOSE x \in S : \A y \in S : y <= x

Min(S) == CHOOSE x \in S : \A y \in S : x <= y

\* the literal lit occurs in s at position i
IsPrefixAt(s, lit, i) ==
    /\ i + Len(lit) - 1 <= Len(s)
    /\ \A k \in 1..Len(lit) : s[i + k - 1] = lit[k]

\* the last position a '.' or [^\n] run starting at i can reach (i - 1 when
\* the run is empty)
LineEnd(s, i) ==
    LET nl == {k \in i..Len(s) : s[k] = NL}
    IN  IF nl = {} THEN Len(s) ELSE Min(nl) - 1

\* the last position of the longest run of characters of class "space",
\* "digit" or "blank" starting at i (i - 1 when the run is empty)
InClass(cls, c) ==
    CASE cls = "space" -> IsSpace(c)
      [] cls = "digit" -> IsDigit(c)
      [] cls = "blank" -> IsBlank(c)

RunEnd(cls, s, i) ==
    LET stop == {k \in i..Len(s) : ~InClass(cls, s[k])}
    IN  IF stop = {} THEN Len(s) ELSE Min(stop) - 1

NoMatch == [end |-> 0, repl |-> <<>>]

(***************************************************************************)
(* Matchers: each gives, for a match of its pattern starting at position i *)
(* of s, the position of the match's last character and the expanded       *)
(* replacement; NoMatch when the pattern does not match at i.              *)
(***************************************************************************)

\* r'(-|\+|\*) (.*)'  ->  r'<ul><li>\g<2></li></ul>'
UlItemMatch(s, i) ==
    IF s[i] \in {"-", "+", "*"} /\ i + 1 <= Len(s) /\ s[i + 1] = " "
    THEN LET e == LineEnd(s, i + 2)
         IN  [end  |-> e,
              repl |-> Tag(UL) \o Tag(LI) \o SubSeq(s, i + 2, e)
                       \o CloseTag(LI) \o CloseTag(UL)]
    ELSE NoMatch

\* r'(\d+\.) (.*)'  ->  r'<ol><li>\g<2></li></ol>'
\* \d+ is greedy: the longest digit run first, then shorter ones
OlItemMatch(s, i) ==
    IF ~IsDigit(s[i]) THEN NoMatch
    ELSE LET ds == {d \in i..RunEnd("digit", s, i) :
                        /\ d + 2 <= Len(s)
                        /\ s[d + 1] = "."
                        /\ s[d + 2] = " "}
         IN  IF ds = {} THEN NoMatch
             ELSE LET d == Max(ds)
                      e == LineEnd(s, d + 3)
                  IN  [end  |-> e,
                       repl |-> Tag(OL) \o Tag(LI) \o SubSeq(s, d + 3, e)
                                \o CloseTag(LI) \o CloseTag(OL)]

\* r'</X>\n(.*)<Y>' with X = re.close and Y = re.open; the replacement is
\* r'</X>\n\n\g<1><Y>' when re.keep, and '\n' otherwise.
\* (.*) is greedy: it reaches for the last <Y> of the line
JoinMatch(re, s, i) ==
    LET head == CloseTag(re.close) \o <<NL>>
        open == Tag(re.open)
    IN  IF ~IsPrefixAt(s, head, i) THEN NoMatch
        ELSE LET b  == i + Len(head)
                 ks == {k \in b..(LineEnd(s, b) - Len(open) + 1) :
                            IsPrefixAt(s, open, k)}
             IN  IF ks = {} THEN NoMatch
                 ELSE LET k == Max(ks)
                      IN  [end  |-> k + Len(open) - 1,
                           repl |-> IF re.keep
                                    THEN head \o <<NL>> \o SubSeq(s, b, k - 1)
                                         \o open
                                    ELSE <<NL>>]

\* r'\*([^\n]+)\*' -> r'<em>\g<1></em>' (re.mark one asterisk) and
\* r'\*\*([^\n]+)\*\*' -> r'<strong>\g<1></strong>' (re.mark two asterisks).
\* [^\n]+ is greedy: it reaches for the last closing mark of the line
EmphMatch(re, s, i) ==
    IF ~IsPrefixAt(s, re.mark, i) THEN NoMatch
    ELSE LET b  == i + Len(re.mark)
             ks == {k \in (b + 1)..(LineEnd(s, b) - Len(re.mark) + 1) :
                        IsPrefixAt(s, re.mark, k)}
         IN  IF ks = {} THEN NoMatch
             ELSE LET k == Max(ks)
                  IN  [end  |-> k + Len(re.mark) - 1,
                       repl |-> Tag(re.tag) \o SubSeq(s, b, k - 1)
                                \o CloseTag(re.tag)]

\* HeaderMatchFrom with [ \t]+ taken lazily (the shortest run first)
HeaderMatchFromLazy(re, s, i, g1) ==
    LET h == i + Len(g1)
        w == h + re.level
    IN  IF ~IsPrefixAt(s, Hashes(re.level), h) THEN NoMatch
        ELSE LET js == {j \in w..RunEnd("blank", s, w) :
                            j + 1 <= Len(s) /\ s[j + 1] # NL}
             IN  IF js = {} THEN NoMatch
                 ELSE LET j == Min(js)
                          e == LineEnd(s, j + 1)
                      IN  [end  |-> e,
                           repl |-> g1 \o Tag(H(re.level))
                                    \o SubSeq(s, j + 1, e)
                                    \o CloseTag(H(re.level))]

\* HeaderMatchFrom with [ \t]* in place of [ \t]+
HeaderMatchFromStar(re, s, i, g1) ==
    LET h == i + Len(g1)
        w == h + re.level
    IN  IF ~IsPrefixAt(s, Hashes(re.level), h) THEN NoMatch
        ELSE LET js == {j \in (w - 1)..RunEnd("blank", s, w) :
                            j + 1 <= Len(s) /\ s[j + 1] # NL}
             IN  IF js = {} THEN NoMatch
                 ELSE LET j == Max(js)
                          e == LineEnd(s, j + 1)
                      IN  [end  |-> e,
                           repl |-> g1 \o Tag(H(re.level))
                                    \o SubSeq(s, j + 1, e)
                                    \o CloseTag(H(re.level))]

\* r'(^|\n)' + f'({"#"*i})' + '[ \t]+([^\n]+)' -> fr'\g<1><h{i}>\g<3></h{i}>'
\* with i = re.level.  The first group is tried as '^' and then as '\n';
\* [ \t]+ is greedy and gives characters back until [^\n]+ finds one.
HeaderMatchFrom(re, s, i, g1) ==
    LET h == i + Len(g1)
        w == h + re.level
    IN  IF ~IsPrefixAt(s, Hashes(re.level), h) THEN NoMatch
        ELSE LET js == {j \in w..RunEnd("blank", s, w) :
                            j + 1 <= Len(s) /\ s[j + 1] # NL}
             IN  IF js = {} THEN NoMatch
                 ELSE LET j == Max(js)
                          e == LineEnd(s, j + 1)
                      IN  [end  |-> e,
                           repl |-> g1 \o Tag(H(re.level))
                                    \o SubSeq(s, j + 1, e)
                                    \o CloseTag(H(re.level))]

HeaderMatch(re, s, i) ==
    LET caret   == IF i = 1 THEN HeaderMatchFrom(re, s, i, <<>>) ELSE NoMatch
        newline == IF s[i] = NL THEN HeaderMatchFrom(re, s, i, <<NL>>)
                   ELSE NoMatch
    IN  IF caret.end # 0 THEN caret ELSE newline

\* ParaMatch with \s* taken lazily (the nearest closing newline)
ParaMatchLazy(s, i) ==
    IF s[i] # NL THEN NoMatch
    ELSE LET ks == {k \in (i + 1)..RunEnd("space", s, i + 1) : s[k] = NL}
         IN  IF ks = {} THEN NoMatch
             ELSE [end  |-> Min(ks),
                   repl |-> CloseTag(P) \o <<NL>> \o Tag(P)]

\* r'\n\s*\n' -> '</p>\n<p>'
\* \s* is greedy: it reaches for the last newline of the whitespace run
ParaMatch(s, i) ==
    IF s[i] # NL THEN NoMatch
    ELSE LET ks == {k \in (i + 1)..RunEnd("space", s, i + 1) : s[k] = NL}
         IN  IF ks = {} THEN NoMatch
             ELSE [end  |-> Max(ks),
                   repl |-> CloseTag(P) \o <<NL>> \o Tag(P)]

MatchAt(re, s, i) ==
    CASE re.kind = "ul_item" -> UlItemMatch(s, i)
      [] re.kind = "ol_item" -> OlItemMatch(s, i)
      [] re.kind = "join"    -> JoinMatch(re, s, i)
      [] re.kind = "emph"    -> EmphMatch(re, s, i)
      [] re.kind = "header"  -> HeaderMatch(re, s, i)
      [] re.kind = "para"    -> ParaMatch(s, i)

\* re.sub(pattern, repl, s): the leftmost non-overlapping matches are
\* replaced, the text between them is copied.  A match at a position depends
\* on s and the position only, so the positions where the pattern matches
\* are found once (starts) and the scan takes, from position i on, the
\* first of them and resumes after that match.  (No pattern of the source
\* matches the empty string.)
RECURSIVE SubFrom(_, _, _, _)
SubFrom(re, s, i, starts) ==
    LET nxt == {k \in starts : k >= i}
    IN  IF nxt = {} THEN SubSeq(s, i, Len(s))
        ELSE LET k == Min(nxt)
                 m == MatchAt(re, s, k)
             IN  SubSeq(s, i, k - 1) \o m.repl
                 \o SubFrom(re, s, m.end + 1, starts)

re_sub(re, s) ==
    SubFrom(re, s, 1, {k \in 1..Len(s) : MatchAt(re, s, k).end # 0})

(***************************************************************************)
(* The stages of md_to_html.py                                             *)
(***************************************************************************)
paragraphs(text) ==
    LET inner_paras_added == re_sub([kind |-> "para"], text)
        all_paras_added   == Tag(P) \o inner_paras_added \o CloseTag(P)
    IN  all_paras_added

JoinRe(close, open, keep) ==
    [kind |-> "join", close |-> close, open |-> open, keep |-> keep]

\* lists without its two merging substitutions
lists_unmerged(text) ==
    LET ul_wrapped     == re_sub([kind |-> "ul_item"], text)
        ol_ul_wrapped  == re_sub([kind |-> "ol_item"], ul_wrapped)
        separated1     == re_sub(JoinRe(UL, OL, TRUE), ol_ul_wrapped)
        separated      == re_sub(JoinRe(OL, UL, TRUE), separated1)
    IN  separated

\* lists without its two separating substitutions
lists_unseparated(text) ==
    LET ul_wrapped     == re_sub([kind |-> "ul_item"], text)
        ol_ul_wrapped  == re_sub([kind |-> "ol_item"], ul_wrapped)
        ul_finished    == re_sub(JoinRe(UL, UL, FALSE), ol_ul_wrapped)
        ol_ul_finished == re_sub(JoinRe(OL, OL, FALSE), ul_finished)
    IN  ol_ul_finished

lists(text) ==
    LET ul_wrapped     == re_sub([kind |-> "ul_item"], text)
        ol_ul_wrapped  == re_sub([kind |-> "ol_item"], ul_wrapped)
        separated1     == re_sub(JoinRe(UL, OL, TRUE), ol_ul_wrapped)
        separated      == re_sub(JoinRe(OL, UL, TRUE), separated1)
        ul_finished    == re_sub(JoinRe(UL, UL, FALSE), separated)
        ol_ul_finished == re_sub(JoinRe(OL, OL, FALSE), ul_finished)
    IN  ol_ul_finished

italics(text) == re_sub([kind |-> "emph", mark |-> <<"*">>, tag |-> EM], text)

bold(text) ==
    re_sub([kind |-> "emph", mark |-> <<"*", "*">>, tag |-> STRONG], text)

MaxLevel == 6

HeaderRe(i) == [kind |-> "header", level |-> i]

\* for i in range(6, 0, -1): corpus = re.sub(..., corpus)
RECURSIVE HeadersFrom(_, _)
HeadersFrom(i, text) ==
    IF i = 0 THEN text ELSE HeadersFrom(i - 1, re_sub(HeaderRe(i), text))

\* headers with the loop started one level too high: range(7, 0, -1)
headers_from_seven(text) == HeadersFrom(MaxLevel + 1, text)

headers(text) == HeadersFrom(MaxLevel, text)

\* html with italics run before bold
html_italics_first(text) ==
    LET converted == paragraphs(lists(bold(italics(headers(text)))))
    IN  Tag(ARTICLE) \o converted \o CloseTag(ARTICLE)

html(text) ==
    LET converted == paragraphs(lists(italics(bold(headers(text)))))
    IN  Tag(ARTICLE) \o converted \o CloseTag(ARTICLE)

(***************************************************************************)
(* The texts the stages are applied to                                     *)
(***************************************************************************)
MaxListLines == 4

MaxMixedLines == 3

MaxParaLines == 5

MaxHashes == 7

MaxGap == 2

MaxPieces == 3

MaxTextLen == 2

\* '\n'.join(ls)
RECURSIVE JoinLines(_)
JoinLines(ls) ==
    IF Len(ls) = 0 THEN <<>>
    ELSE IF Len(ls) = 1 THEN ls[1]
    ELSE ls[1] \o <<NL>> \o JoinLines(Tail(ls))

\* ''.join(ps)
RECURSIVE Concat(_)
Concat(ps) == IF Len(ps) = 0 THEN <<>> ELSE ps[1] \o Concat(Tail(ps))

SeqsUpTo(pool, n) == UNION {[1..k -> pool] : k \in 1..n}

\* list-marker lines with plain item texts
ListLinePool ==
    { <<"-", " ", "a">>, <<"+", " ", "b", " ", "c">>, <<"*", " ", "d">>,
      <<"2", ".", " ", "e">>, <<"6", "9", ".", " ", "f">> }

ListCorpora == {JoinLines(ls) : ls \in SeqsUpTo(ListLinePool, MaxListLines)}

\* marker lines, plain lines, a marker inside a line, literal list tags
MixedLinePool ==
    { <<"-", " ", "a">>, <<"1", ".", " ", "b">>, <<"p">>,
      <<"7", " ", "p", ".">>, <<"x", " ", "-", " ", "y">>,
      CloseTag(UL), Tag(UL), <<>> }

MixedCorpora == {JoinLines(ls) : ls \in SeqsUpTo(MixedLinePool, MaxMixedLines)}

\* non-blank lines and blank or whitespace-only lines
ParaLinePool == { <<"P">>, <<" ", "Q", " ">>, <<>>, <<" ", "\t">> }

ParaCorpora == {JoinLines(ls) : ls \in SeqsUpTo(ParaLinePool, MaxParaLines)}

\* a run of '#', a run of spaces/tabs, a text; alone, after a plain line, or
\* before another header line
GapPool == UNION {[1..k -> {" ", "\t"}] : k \in 0..MaxGap}

HeaderTextPool == { <<"h">>, <<"h", " ", "i", "\t">>, <<>> }

HeaderLinePool ==
    {Hashes(n) \o g \o x :
        n \in 1..MaxHashes, g \in GapPool, x \in HeaderTextPool}

HeaderCorpora ==
    HeaderLinePool
    \cup {<<"p", NL>> \o l : l \in HeaderLinePool}
    \cup {l \o <<NL, "#", " ", "z">> : l \in HeaderLinePool}

\* emphasised spans, loose marks and plain text in between
PiecePool ==
    { <<"*", "*", "a", "*", "*">>, <<"*", "a", "*">>, <<"*", "*">>, <<"*">>,
      <<"b">>, <<" ">>, <<NL>> }

PlainTexts == UNION {[1..k -> {"x", " ", "y"}] : k \in 1..MaxTextLen}

EmphCorpora ==
    {Concat(ps) : ps \in SeqsUpTo(PiecePool, MaxPieces)}
    \cup {<<"*", "*", "*">> \o x \o <<"*", "*", "*">> : x \in PlainTexts}

(***************************************************************************)
(* The state machine: a text is handed to one of the module's functions,   *)
(* which returns its conversion.                                           *)
(***************************************************************************)
Ready(S) ==
    /\ corpus \in S
    /\ called = "none"
    /\ result = <<>>

Return(fn, value) ==
    /\ called = "none"
    /\ called' = fn
    /\ result' = value
    /\ UNCHANGED corpus

CallParagraphs == Return("paragraphs", paragraphs(corpus))

CallLists == Return("lists", lists(corpus))

CallItalics == Return("italics", italics(corpus))

CallBold == Return("bold", bold(corpus))

CallHeaders == Return("headers", headers(corpus))

CallHtml == Return("html", html(corpus))

Next ==
    \/ CallParagraphs
    \/ CallLists
    \/ CallItalics
    \/ CallBold
    \/ CallHeaders
    \/ CallHtml

InitLists == Ready(ListCorpora)

InitMixed == Ready(MixedCorpora)

InitParas == Ready(ParaCorpora)

InitHeaders == Ready(HeaderCorpora)

InitEmph == Ready(EmphCorpora)

Init ==
    Ready(ListCorpora \cup MixedCorpora \cup ParaCorpora \cup HeaderCorpora
          \cup EmphCorpora)

SpecLists == InitLists /\ [][Next]_vars

SpecMixed == InitMixed /\ [][Next]_vars

SpecParas == InitParas /\ [][Next]_vars

SpecHeaders == InitHeaders /\ [][Next]_vars

SpecEmph == InitEmph /\ [][Next]_vars

Spec == Init /\ [][Next]_vars

(***************************************************************************)
(* Reading a text back: its lines, the kind of each line, runs of lines    *)
(***************************************************************************)
\* s.split('\n')
RECURSIVE SplitLines(_)
SplitLines(s) ==
    LET e == LineEnd(s, 1)
    IN  IF e = Len(s) THEN <<s>>
        ELSE <<SubSeq(s, 1, e)>> \o SplitLines(SubSeq(s, e + 2, Len(s)))

Range(f) == {f[k] : k \in DOMAIN f}

\* a text without marker characters, digits, tag openers or newlines
IsPlain(x) ==
    \A k \in 1..Len(x) :
        x[k] \notin {"#", "*", "-", "+", "<", NL} /\ ~IsDigit(x[k])

BeginsUnordered(l) == Len(l) >= 2 /\ l[1] \in {"-", "+", "*"} /\ l[2] = " "

BeginsOrdered(l) ==
    LET d == RunEnd("digit", l, 1)
    IN  d >= 1 /\ d + 2 <= Len(l) /\ l[d + 1] = "." /\ l[d + 2] = " "

ItemText(l) ==
    IF BeginsUnordered(l) THEN SubSeq(l, 3, Len(l))
    ELSE SubSeq(l, RunEnd("digit", l, 1) + 3, Len(l))

\* "ul" or "ol" for a marker line with a plain item text, "none" otherwise
LineType(l) ==
    IF BeginsUnordered(l) /\ IsPlain(ItemText(l)) THEN "ul"
    ELSE IF BeginsOrdered(l) /\ IsPlain(ItemText(l)) THEN "ol"
    ELSE "none"

\* the length of the first run of equal entries of a non-empty sequence
FirstRun(keys) ==
    Max({n \in 1..Len(keys) : \A k \in 1..n : keys[k] = keys[1]})

\* a sequence of lines cut into its maximal runs of lines of one type
RECURSIVE TypeRuns(_)
TypeRuns(ls) ==
    IF Len(ls) = 0 THEN <<>>
    ELSE LET n == FirstRun([k \in 1..Len(ls) |-> LineType(ls[k])])
         IN  <<SubSeq(ls, 1, n)>> \o TypeRuns(SubSeq(ls, n + 1, Len(ls)))

\* one list container holding one item per line of the run
Container(run) ==
    LET name == IF LineType(run[1]) = "ul" THEN UL ELSE OL
    IN  Tag(name)
        \o JoinLines([k \in 1..Len(run) |->
                         Tag(LI) \o ItemText(run[k]) \o CloseTag(LI)])
        \o CloseTag(name)

IsBlankLine(l) == \A k \in 1..Len(l) : IsSpace(l[k])

\* the maximal runs of non-blank lines of a sequence of lines
RECURSIVE Blocks(_)
Blocks(ls) ==
    IF Len(ls) = 0 THEN <<>>
    ELSE LET n    == FirstRun([k \in 1..Len(ls) |-> IsBlankLine(ls[k])])
             rest == Blocks(SubSeq(ls, n + 1, Len(ls)))
         IN  IF IsBlankLine(ls[1]) THEN rest
             ELSE <<JoinLines(SubSeq(ls, 1, n))>> \o rest

\* a line read as a run of '#', a run of spaces/tabs and the rest
LeadingHashes(l) == Max({n \in 0..Len(l) : \A k \in 1..n : l[k] = "#"})

GapLen(l) == RunEnd("blank", l, LeadingHashes(l) + 1) - LeadingHashes(l)

HeaderText(l) == SubSeq(l, LeadingHashes(l) + GapLen(l) + 1, Len(l))

\* 1..6 '#', one or more spaces/tabs, then a text
IsHeaderLine(l) ==
    /\ LeadingHashes(l) \in 1..MaxLevel
    /\ GapLen(l) >= 1
    /\ HeaderText(l) # <<>>

Heading(i, x) == Tag(H(i)) \o x \o CloseTag(H(i))

IsHeading(i, l) ==
    /\ Len(l) >= 9
    /\ IsPrefixAt(l, Tag(H(i)), 1)
    /\ IsPrefixAt(l, CloseTag(H(i)), Len(l) - 4)

HeadingContent(l) == SubSeq(l, 5, Len(l) - 5)

CorpusLines == SplitLines(corpus)

ResultLines == SplitLines(result)

(***************************************************************************)
(* Claims                                                                  *)
(***************************************************************************)

\* C1: a run of n >= 2 directly adjacent marker lines of one type (all
\* unordered, markers in any mix, or all ordered) with plain item texts is
\* turned by lists into exactly one container holding the n items in the
\* input order, one per line.
ListMerge ==
    called = "lists" =>
        LET runs == TypeRuns(CorpusLines)
        IN  (/\ Len(CorpusLines) >= 2
             /\ Len(runs) = 1
             /\ LineType(CorpusLines[1]) # "none")
            => result = Container(CorpusLines)

ListMergeWitness ==
    /\ called = "lists"
    /\ Len(CorpusLines) >= 3
    /\ Len(TypeRuns(CorpusLines)) = 1
    /\ LineType(CorpusLines[1]) = "ul"
    /\ Cardinality({CorpusLines[k][1] : k \in 1..Len(CorpusLines)}) = 3
    /\ result = Container(CorpusLines)

\* C2: an unordered run, then an ordered run, then an unordered run of
\* directly adjacent marker lines give one container per run, in order,
\* consecutive containers separated by exactly one blank line, the items of
\* each run in their order.
MixedSeparation ==
    called = "lists" =>
        LET runs == TypeRuns(CorpusLines)
        IN  (/\ Len(runs) = 3
             /\ LineType(runs[1][1]) = "ul"
             /\ LineType(runs[2][1]) = "ol"
             /\ LineType(runs[3][1]) = "ul")
            => result = Container(runs[1]) \o <<NL, NL>> \o Container(runs[2])
                        \o <<NL, NL>> \o Container(runs[3])

MixedSeparationWitness ==
    /\ called = "lists"
    /\ LET runs == TypeRuns(CorpusLines)
       IN  /\ Len(runs) = 3
           /\ LineType(runs[1][1]) = "ul"
           /\ LineType(runs[2][1]) = "ol"
           /\ LineType(runs[3][1]) = "ul"
           /\ Len(runs[2]) = 2
           /\ result = Container(runs[1]) \o <<NL, NL>> \o Container(runs[2])
                       \o <<NL, NL>> \o Container(runs[3])

\* C3: a text of k >= 1 non-blank blocks separated by runs of one or more
\* blank or whitespace-only lines is turned by paragraphs into exactly k
\* elements <p>block</p> joined by single newlines, each block unchanged.
ParagraphBoundaries ==
    (/\ called = "paragraphs"
     /\ ~IsBlankLine(CorpusLines[1])
     /\ ~IsBlankLine(CorpusLines[Len(CorpusLines)]))
    => LET blocks == Blocks(CorpusLines)
       IN  result = JoinLines([k \in 1..Len(blocks) |->
                                  Tag(P) \o blocks[k] \o CloseTag(P)])

ParagraphBoundariesWitness ==
    /\ called = "paragraphs"
    /\ Len(CorpusLines) = 5
    /\ ~IsBlankLine(CorpusLines[1])
    /\ CorpusLines[2] = <<>>
    /\ IsBlankLine(CorpusLines[3]) /\ CorpusLines[3] # <<>>
    /\ ~IsBlankLine(CorpusLines[4])
    /\ ~IsBlankLine(CorpusLines[5])
    /\ Len(Blocks(CorpusLines)) = 2
    /\ result = Tag(P) \o CorpusLines[1] \o CloseTag(P) \o <<NL>> \o Tag(P)
                \o CorpusLines[4] \o <<NL>> \o CorpusLines[5] \o CloseTag(P)

\* C4: headers turns a line of exactly n in 1..6 '#', one or more
\* spaces/tabs and a text t into <hn>t</hn>, and returns unchanged a line
\* that starts with 7 or more '#' or whose '#' run is directly followed by
\* text.
HeaderLevels ==
    called = "headers" =>
        /\ Len(ResultLines) = Len(CorpusLines)
        /\ \A k \in 1..Len(CorpusLines) :
              LET l == CorpusLines[k]
              IN  /\ IsHeaderLine(l) =>
                        ResultLines[k] = Heading(LeadingHashes(l), HeaderText(l))
                  /\ (\/ LeadingHashes(l) > MaxLevel
                      \/ /\ LeadingHashes(l) >= 1
                         /\ GapLen(l) = 0
                         /\ HeaderText(l) # <<>>)
                     => ResultLines[k] = l

HeaderLevelsWitness ==
    /\ called = "headers"
    /\ Len(CorpusLines) = 2
    /\ LeadingHashes(CorpusLines[1]) = MaxLevel + 1
    /\ GapLen(CorpusLines[1]) = 2
    /\ HeaderText(CorpusLines[1]) # <<>>
    /\ ResultLines[1] = CorpusLines[1]
    /\ IsHeaderLine(CorpusLines[2])
    /\ IsHeading(1, ResultLines[2])

\* C5: for a non-empty text x without newline, asterisk or other marker,
\* html('***x***') is <article><p><strong><em>x</em></strong></p></article>:
\* strong outside, em inside, no asterisk left.
IsTripleStarred(s) ==
    /\ Len(s) >= 7
    /\ IsPrefixAt(s, <<"*", "*", "*">>, 1)
    /\ IsPrefixAt(s, <<"*", "*", "*">>, Len(s) - 2)
    /\ IsPlain(SubSeq(s, 4, Len(s) - 3))

BoldBeforeItalics ==
    (called = "html" /\ IsTripleStarred(corpus))
    => result = Tag(ARTICLE) \o Tag(P) \o Tag(STRONG) \o Tag(EM)
                \o SubSeq(corpus, 4, Len(corpus) - 3)
                \o CloseTag(EM) \o CloseTag(STRONG) \o CloseTag(P)
                \o CloseTag(ARTICLE)

BoldBeforeItalicsWitness ==
    /\ called = "html"
    /\ IsTripleStarred(corpus)
    /\ Len(corpus) = 8
    /\ IsPrefixAt(result, Tag(ARTICLE) \o Tag(P) \o Tag(STRONG) \o Tag(EM), 1)
    /\ "*" \notin Range(result)

\* C6: on a text without Markdown special characters (no '#', '*', '-',
\* '+', no digit followed by '.') headers, bold, italics and lists return
\* the text unchanged, so html returns it wrapped only in paragraph and
\* document markup.
NoMarkdown(s) ==
    /\ \A k \in 1..Len(s) : s[k] \notin {"#", "*", "-", "+"}
    /\ \A k \in 1..(Len(s) - 1) : ~(IsDigit(s[k]) /\ s[k + 1] = ".")

SpanTexts == { <<"a">> }

SpanSeparators == { <<"b">>, <<" ">>, <<NL>> }

NearestCloser ==
    \A x \in SpanTexts, y \in SpanTexts, sep \in SpanSeparators :
        /\ (/\ called = "bold"
            /\ corpus = <<"*", "*">> \o x \o <<"*", "*">> \o sep
                        \o <<"*", "*">> \o y \o <<"*", "*">>)
           => result = Tag(STRONG) \o x \o CloseTag(STRONG) \o sep
                       \o Tag(STRONG) \o y \o CloseTag(STRONG)
        /\ (/\ called = "italics"
            /\ corpus = <<"*">> \o x \o <<"*">> \o sep
                        \o <<"*">> \o y \o <<"*">>)
           => result = Tag(EM) \o x \o CloseTag(EM) \o sep
                       \o Tag(EM) \o y \o CloseTag(EM)

\* C8: every line of the input that does not begin with an unordered or
\* ordered marker is present unchanged in the output of lists.
UnmarkedLinesKept ==
    called = "lists" =>
        \A k \in 1..Len(CorpusLines) :
            (~BeginsUnordered(CorpusLines[k]) /\ ~BeginsOrdered(CorpusLines[k]))
            => CorpusLines[k] \in Range(ResultLines)

\* C9 as stated: for every header line the content between <hn> and </hn>
\* neither starts nor ends with a space or tab.
HeadingTrimmedBothEnds ==
    called = "headers" =>
        \A k \in 1..Len(CorpusLines) :
            IsHeaderLine(CorpusLines[k]) =>
                LET c == HeadingContent(ResultLines[k])
                IN  /\ IsHeading(LeadingHashes(CorpusLines[k]), ResultLines[k])
                    /\ ~IsBlank(c[1])
                    /\ ~IsBlank(c[Len(c)])

\* C9 as amended: for every header line (1..6 '#', one or more spaces/tabs,
\* then a text that starts with another character) the content between
\* <hn> and </hn> does not start with a space or tab, and the spaces/tabs
\* that end the line are kept: the content ends with the line's last
\* character.
HeadingTrimmedAtStart ==
    called = "headers" =>
        \A k \in 1..Len(CorpusLines) :
            IsHeaderLine(CorpusLines[k]) =>
                LET l == CorpusLines[k]
                    c == HeadingContent(ResultLines[k])
                IN  /\ IsHeading(LeadingHashes(l), ResultLines[k])
                    /\ ~IsBlank(c[1])
                    /\ c[Len(c)] = l[Len(l)]

HeadingTrimmedAtStartWitness ==
    /\ called = "headers"
    /\ Len(CorpusLines) = 1
    /\ IsHeaderLine(corpus)
    /\ GapLen(corpus) = 2
    /\ IsBlank(corpus[Len(corpus)])
    /\ IsHeading(LeadingHashes(corpus), result)
    /\ IsBlank(result[Len(result) - 5])

\* the substitutions of headers applied from level 1 up to level 6
RECURSIVE HeadersUpFrom(_, _)
HeadersUpFrom(i, text) ==
    IF i > MaxLevel THEN text
    ELSE HeadersUpFrom(i + 1, re_sub(HeaderRe(i), text))

\* C10 as stated: there is an input on which the substitutions of headers
\* applied in another order (level 1 up to level 6) give a different result.
LevelOrderMatters ==
    \E s \in HeaderCorpora \cup {corpus} : HeadersUpFrom(1, s) # headers(s)

\* C10 as amended: the order of the levels does not matter; on every input
\* the substitutions applied from level 1 up to level 6 give the result of
\* headers, because each pattern demands a space or tab right after its
\* own number of '#'.
LevelOrderIrrelevant ==
    called = "headers" => result = HeadersUpFrom(1, corpus)

LevelOrderIrrelevantWitness ==
    /\ called = "headers"
    /\ Len(CorpusLines) = 1
    /\ IsHeaderLine(corpus)
    /\ LeadingHashes(corpus) = MaxLevel
    /\ IsHeading(MaxLevel, result)
    /\ result = HeadersUpFrom(1, corpus)
====
